---- MODULE Spec2Model ----
(***************************************************************************)
(* A model of popol (src/src/lib.rs): the keyed descriptor registry        *)
(* (Descriptors), the Waker built on a socket pair, and wait(), which      *)
(* calls poll(2) over the registry and hands back a lazy iterator.         *)
(*                                                                         *)
(* Event bitmasks are modelled as sets of flag names, so that `&` is       *)
(* intersection, `|` is union and `!= 0` is non-emptiness.                 *)
(* Positions of the source are 0-based; sequences here are 1-based, so     *)
(* source position p is index p + 1 of `index` and `list`. The keys of     *)
(* `wakers` are source positions (0-based), as in the HashMap.             *)
(***************************************************************************)
EXTENDS Integers, Sequences, FiniteSets, TLC

\* ---- bounds of the model ------------------------------------------------
NUser == 2          \* socket pairs owned by the caller (ids 1..NUser)
MaxWakers == 2      \* calls of Waker::new
MaxLen == 3         \* entries in the registry (registry specification)
MaxLenW == 2        \* entries in the registry (waker specification)
BufCap == 2         \* bytes a waker pair queues before a write would block
UserCap == 1        \* bytes a caller's pair queues before a write would block

Keys == {"a", "b", "c"}
KeysW == {"a", "b"}
UserPairs == 1..NUser
WakerIds == (NUser + 1)..(NUser + MaxWakers)
Pairs == UserPairs \cup WakerIds
MaxFd == NUser + 2 * MaxWakers
Fds == 1..MaxFd
NoEnd == [pair |-> 0, side |-> "none"]

\* ---- events (mod events) --------------------------------------------------
POLLIN == {"IN"}
POLLPRI == {"PRI"}
POLLOUT == {"OUT"}
POLLWRBAND == {"WRBAND"}
POLLERR == {"ERR"}
POLLHUP == {"HUP"}
POLLNVAL == {"NVAL"}
READ == POLLIN \cup POLLPRI
WRITE == POLLOUT \cup POLLWRBAND
\* the interest sets the caller passes in this model
Interests == {{}, READ, WRITE}

VARIABLES
  index,      \* Descriptors.index : Vec<K>
  list,       \* Descriptors.list  : Vec<Descriptor>
  wakers,     \* Descriptors.wakers: HashMap<usize, UnixStream> (position -> pair)
  pc,         \* "idle" | "poll" (blocked in libc::poll) | "iter" | "aborted"
  cursor,     \* index of the last entry the Ready iterator has looked at
  waitRes,    \* outcome of the last wait: "none" | "Timeout" | "Ready" | "Err"
  yielded,    \* the (key, Event) pairs the iterator has produced in this wait
  panic,      \* why the program aborted: "none" | "assert_read" | ...
  fdt,        \* the process's descriptor table: fd -> socket end, or NoEnd
  buf,        \* per pair: bytes queued towards its reader end
  wOpen,      \* per pair: the writer (remote) half is open
  rOpen,      \* per pair: the reader half is open
  nwk,        \* number of Waker::new calls so far
  lastWake,   \* history: the last wake(): was the buffer full, its result
  fresh,      \* history: the last "unregister(k); register(k, h, i)" pair
  pend0,      \* history: wakers holding an undrained wake when the wait began
  conc,       \* history: wakers woken while the current wait was blocked
  phase,      \* history, per waker: stage of the wake/wait protocol
  everDup,    \* history: a key was registered while already present
  unreg,      \* history: keys unregistered and not registered again since
  order,      \* history: the registered <<key, fd>> in order of registration
  dur,        \* the Duration handed to the last wait, as a millisecond count
  timeout,    \* the c_int that wait hands to libc::poll
  lastOp,     \* history: the last keyed call (set, get_mut) and what it found
  hup0        \* history: pairs whose remote half was closed when the wait began

codeVars == <<index, list, wakers, pc, cursor, waitRes, yielded, panic>>
sockVars == <<fdt, buf, wOpen, rOpen, nwk>>
wakeHist == <<lastWake, fresh, pend0, conc, phase>>
regHist == <<everDup, unreg, order>>
callVars == <<dur, timeout, lastOp, hup0>>
vars == <<codeVars, sockVars, wakeHist, regHist, callVars>>

\* ---- helpers --------------------------------------------------------------
Min2(a, b) == IF a < b THEN a ELSE b

\* Vec::swap_remove(ix), ix 1-based
SwapRemove(s, ix) ==
  IF ix = Len(s) THEN SubSeq(s, 1, Len(s) - 1)
  ELSE [SubSeq(s, 1, Len(s) - 1) EXCEPT ![ix] = s[Len(s)]]

\* mutant: the last entry with the key is found
PositionLast(s, key) ==
  IF \E i \in 1..Len(s) : s[i] = key
  THEN CHOOSE i \in 1..Len(s) : s[i] = key /\ \A j \in (i + 1)..Len(s) : s[j] # key
  ELSE 0

\* self.index.iter().position(|k| k == key), 1-based; 0 for None
Position(s, key) ==
  IF \E i \in 1..Len(s) : s[i] = key
  THEN CHOOSE i \in 1..Len(s) : s[i] = key /\ \A j \in 1..(i - 1) : s[j] # key
  ELSE 0

\* Descriptor::new; `wk` is a history tag: the waker that created the entry
NewDescriptor(fd, events) ==
  [fd |-> fd, events |-> events, revents |-> {}, wk |-> 0]

\* Event::from
EventFrom(d) ==
  [readable |-> d.revents \cap READ # {},
   writable |-> d.revents \cap WRITE # {},
   hangup   |-> d.revents \cap POLLHUP # {},
   errored  |-> d.revents \cap (POLLERR \cup POLLNVAL) # {},
   fd       |-> d.fd]

\* ---- the operating system --------------------------------------------------
Cap(p) == IF p \in UserPairs THEN UserCap ELSE BufCap
FdOf(p, side) == CHOOSE n \in Fds : fdt[n] = [pair |-> p, side |-> side]
FreeFds(t) == {n \in Fds : t[n] = NoEnd}
LowestFree(t) == CHOOSE n \in FreeFds(t) : \A m \in FreeFds(t) : n <= m

\* what poll(2) stores in revents for one pollfd (a stream socket end)
PollRevents(d) ==
  LET e == fdt[d.fd] IN
  IF e = NoEnd THEN POLLNVAL
  ELSE LET p == e.pair
           peerOpen == IF e.side = "r" THEN wOpen[p] ELSE rOpen[p]
           in  == IF e.side = "r" THEN buf[p] > 0 \/ ~peerOpen ELSE ~peerOpen
           out == IF e.side = "r" THEN TRUE ELSE buf[p] < Cap(p) \/ ~peerOpen
           ready == (IF in THEN POLLIN ELSE {}) \cup (IF out THEN WRITE ELSE {})
       IN (d.events \cap ready) \cup (IF peerOpen THEN {} ELSE POLLHUP)

Polled == [i \in 1..Len(list) |-> [list[i] EXCEPT !.revents = PollRevents(list[i])]]
PollCount == Cardinality({i \in 1..Len(list) : PollRevents(list[i]) # {}})

\* self.writer.write_all(&[0x1]) on the non-blocking writer of pair w
WriteAll(w) ==
  IF ~rOpen[w] THEN "BrokenPipe"
  ELSE IF buf[w] >= Cap(w) THEN "WouldBlock"
  ELSE "Ok"

\* reader.read_exact(&mut [0u8; 1]) on the non-blocking reader of pair r
Snooze(r) ==
  IF buf[r] > 0 THEN "Ok"
  ELSE IF wOpen[r] THEN "WouldBlock"
  ELSE "UnexpectedEof"

\* ---- Descriptors ------------------------------------------------------------
\* Wait<'a, K> borrows the registry mutably: the result of the last wait and its
\* iterator are gone before the registry is borrowed again
WaitDropped ==
  /\ waitRes' = "none"
  /\ yielded' = <<>>
  /\ cursor' = 0

Insert(key, d) ==
  /\ index' = Append(index, key)
  /\ list' = Append(list, d)

Register(key, fd, events) ==
  /\ pc = "idle"
  /\ Insert(key, NewDescriptor(fd, events))
  /\ WaitDropped
  /\ UNCHANGED <<wakers, pc, panic, sockVars>>

\* mutant: the key is left in `index`
UnregisterAtKeepKey(ix) ==
  /\ index' = index
  /\ list' = SwapRemove(list, ix)

\* mutant: the last key is popped instead of the key at ix
UnregisterAtPopKey(ix) ==
  /\ index' = SubSeq(index, 1, Len(index) - 1)
  /\ list' = SwapRemove(list, ix)

UnregisterAt(ix) ==
  /\ index' = SwapRemove(index, ix)
  /\ list' = SwapRemove(list, ix)

Unregister(key) ==
  /\ pc = "idle"
  /\ LET ix == Position(index, key) IN
       IF ix # 0 THEN UnregisterAt(ix) ELSE UNCHANGED <<index, list>>
  /\ WaitDropped
  /\ UNCHANGED <<wakers, pc, panic, sockVars>>

\* mutant: the flags are merged into the interest
SetAtMerge(ix, events) == [list EXCEPT ![ix].events = @ \cup events]

SetAt(ix, events) == [list EXCEPT ![ix].events = events]

\* the bool that set returns
SetFound(key) == Position(index, key) # 0

Set(key, events) ==
  /\ pc = "idle"
  /\ LET ix == Position(index, key) IN
       list' = IF ix # 0 THEN SetAt(ix, events) ELSE list
  /\ WaitDropped
  /\ UNCHANGED <<index, wakers, pc, panic, sockVars>>

\* get_mut borrows the registry mutably and hands out the entry it finds
GetMut(key) ==
  /\ pc = "idle"
  /\ WaitDropped
  /\ UNCHANGED <<index, list, wakers, pc, panic, sockVars>>

\* the position (1-based) of the entry get_mut returns, 0 for None
GetMutFound(key) == Position(index, key)

\* ---- Waker --------------------------------------------------------------------
\* HashMap::insert(pos, reader)
WakersInsert(pos, r) ==
  [p \in DOMAIN wakers \cup {pos} |-> IF p = pos THEN r ELSE wakers[p]]

\* the reader HashMap::insert replaces and drops, 0 for none
Replaced(pos) == IF pos \in DOMAIN wakers THEN wakers[pos] ELSE 0

WakerNew(key) ==
  /\ pc = "idle"
  /\ nwk < MaxWakers
  /\ LET w == NUser + nwk + 1
         wfd == LowestFree(fdt)
         t1 == [fdt EXCEPT ![wfd] = [pair |-> w, side |-> "w"]]
         rfd == LowestFree(t1)
         t2 == [t1 EXCEPT ![rfd] = [pair |-> w, side |-> "r"]]
         pos == Len(list)
         old == Replaced(pos)
     IN /\ wakers' = WakersInsert(pos, w)
        /\ Insert(key, [NewDescriptor(rfd, READ) EXCEPT !.wk = w])
        /\ fdt' = IF old = 0 THEN t2
                  ELSE [t2 EXCEPT ![FdOf(old, "r")] = NoEnd]
        /\ rOpen' = [p \in Pairs |-> IF p = w THEN TRUE
                                     ELSE IF p = old THEN FALSE ELSE rOpen[p]]
        /\ wOpen' = [wOpen EXCEPT ![w] = TRUE]
  /\ nwk' = nwk + 1
  /\ WaitDropped
  /\ UNCHANGED <<pc, panic, buf>>

\* the Waker values created so far and not yet dropped
Alive(w) == w \in WakerIds /\ w <= NUser + nwk /\ wOpen[w]

\* Waker::wake, from any thread
Wake(w) ==
  /\ pc # "aborted"
  /\ Alive(w)
  /\ buf' = IF WriteAll(w) = "Ok" THEN [buf EXCEPT ![w] = @ + 1] ELSE buf
  /\ UNCHANGED <<codeVars, fdt, wOpen, rOpen, nwk>>

\* the Waker value is dropped: its writer half is closed
DropWaker(w) ==
  /\ pc # "aborted"
  /\ Alive(w)
  /\ wOpen' = [wOpen EXCEPT ![w] = FALSE]
  /\ fdt' = [fdt EXCEPT ![FdOf(w, "w")] = NoEnd]
  /\ UNCHANGED <<codeVars, buf, rOpen, nwk>>

\* ---- the timeout of wait ----------------------------------------------------------
CIntBits == 32      \* width of libc::c_int
MaxHi == 2          \* largest digit above bit 31 of a millisecond count
Limb == 2 ^ (CIntBits \div 2)
CIntMax == (Limb \div 2 - 1) * Limb + (Limb - 1)

\* timeout.as_millis(), a u128, written in three digits: hi * 2^32 + mid * 2^16 + lo
Millis(hi, mid, lo) == [hi |-> hi, mid |-> mid, lo |-> lo]
Digits == {0, 1, Limb \div 2 - 1, Limb \div 2, Limb \div 2 + 1, Limb - 1}
Durations == {Millis(h, m, l) : h \in 0..MaxHi, m \in Digits, l \in {0, 1, Limb - 1}}

\* `as libc::c_int` on a u128: the low 32 bits, read as two's complement
AsCInt(m) ==
  (IF m.mid >= Limb \div 2 THEN m.mid - Limb ELSE m.mid) * Limb + m.lo

\* the first line of wait: the timeout handed to poll
WaitTimeout(d) ==
  /\ dur' = d
  /\ timeout' = AsCInt(d)

\* ---- wait ---------------------------------------------------------------------
\* wait is called: the thread enters libc::poll
WaitBegin ==
  /\ pc = "idle"
  /\ pc' = "poll"
  /\ waitRes' = "none"
  /\ yielded' = <<>>
  /\ cursor' = 0
  /\ UNCHANGED <<index, list, wakers, panic, sockVars>>

\* poll returns 0: Wait::Timeout
PollTimeout ==
  /\ pc = "poll"
  /\ PollCount = 0
  /\ list' = Polled
  /\ pc' = "idle"
  /\ waitRes' = "Timeout"
  /\ UNCHANGED <<index, wakers, cursor, yielded, panic, sockVars>>

\* poll returns > 0: Wait::Ready with the lazy iterator
PollReady ==
  /\ pc = "poll"
  /\ PollCount > 0
  /\ list' = Polled
  /\ pc' = "iter"
  /\ waitRes' = "Ready"
  /\ UNCHANGED <<index, wakers, cursor, yielded, panic, sockVars>>

\* poll returns < 0 (say EINTR): wait returns Err
PollError ==
  /\ pc = "poll"
  /\ pc' = "idle"
  /\ waitRes' = "Err"
  /\ UNCHANGED <<index, list, wakers, cursor, yielded, panic, sockVars>>

\* mutant: the iterator walks the registry from its end
NextReadyRev(c) ==
  LET seen == {yielded[j].pos + 1 : j \in 1..Len(yielded)}
      left == {i \in 1..Len(list) : list[i].revents # {} /\ i \notin seen}
  IN IF left = {} THEN 0 ELSE CHOOSE i \in left : \A j \in left : j <= i

\* .filter(|(_, (_, d))| d.revents != 0): the next entry the iterator stops at
NextReady(c) ==
  IF \E i \in (c + 1)..Len(list) : list[i].revents # {}
  THEN CHOOSE i \in (c + 1)..Len(list) :
         /\ list[i].revents # {}
         /\ \A j \in (c + 1)..(i - 1) : list[j].revents = {}
  ELSE 0

\* mutant: the second assertion is left out
MapStepNoWriteAssert(i) ==
  IF (i - 1) \in DOMAIN wakers
  THEN IF list[i].revents \cap READ = {} THEN "assert_read"
       ELSE IF Snooze(wakers[i - 1]) # "Ok" THEN "snooze"
       ELSE "yield"
  ELSE "yield"

\* the .map closure at index i: "yield", or the panic it raises
MapStep(i) ==
  IF (i - 1) \in DOMAIN wakers
  THEN IF list[i].revents \cap READ = {} THEN "assert_read"
       ELSE IF list[i].revents \cap WRITE # {} THEN "assert_write"
       ELSE IF Snooze(wakers[i - 1]) # "Ok" THEN "snooze"
       ELSE "yield"
  ELSE "yield"

\* the reader drained when index i is yielded, 0 for none
Drained(i) == IF (i - 1) \in DOMAIN wakers THEN wakers[i - 1] ELSE 0

\* next() returns Some((key, event))
IterYield ==
  /\ pc = "iter"
  /\ LET i == NextReady(cursor) IN
       /\ i # 0
       /\ MapStep(i) = "yield"
       /\ cursor' = i
       /\ buf' = IF Drained(i) # 0 THEN [buf EXCEPT ![Drained(i)] = @ - 1] ELSE buf
       /\ yielded' = Append(yielded,
            [key |-> index[i], ev |-> EventFrom(list[i]), pos |-> i - 1,
             drained |-> Drained(i), wk |-> list[i].wk])
  /\ UNCHANGED <<index, list, wakers, pc, waitRes, panic, fdt, wOpen, rOpen, nwk>>

\* next() panics in the .map closure
IterPanic ==
  /\ pc = "iter"
  /\ LET i == NextReady(cursor) IN
       /\ i # 0
       /\ MapStep(i) # "yield"
       /\ cursor' = i
       /\ panic' = MapStep(i)
  /\ pc' = "aborted"
  /\ UNCHANGED <<index, list, wakers, waitRes, yielded, sockVars>>

\* next() returns None: the result has been fully iterated
IterEnd ==
  /\ pc = "iter"
  /\ NextReady(cursor) = 0
  /\ pc' = "idle"
  /\ cursor' = Len(list)
  /\ UNCHANGED <<index, list, wakers, waitRes, yielded, panic, sockVars>>

\* ---- the caller's endpoints and their remote halves -----------------------------
RemoteWrite(u) ==
  /\ pc # "aborted"
  /\ wOpen[u] /\ buf[u] < Cap(u)
  /\ buf' = [buf EXCEPT ![u] = @ + 1]
  /\ UNCHANGED <<codeVars, fdt, wOpen, rOpen, nwk>>

RemoteClose(u) ==
  /\ pc # "aborted"
  /\ wOpen[u]
  /\ wOpen' = [wOpen EXCEPT ![u] = FALSE]
  /\ UNCHANGED <<codeVars, fdt, buf, rOpen, nwk>>

LocalRead(u) ==
  /\ pc # "aborted"
  /\ buf[u] > 0
  /\ buf' = [buf EXCEPT ![u] = @ - 1]
  /\ UNCHANGED <<codeVars, fdt, wOpen, rOpen, nwk>>

\* ---- history of the wake/wait protocol (waker specification) ----------------------
NoFresh == [key |-> "none", fd |-> 0, events |-> {}, stage |-> "none"]
NoWake == [full |-> FALSE, res |-> "none"]

\* a mutation of the registry voids the protocol stage of every waker that has
\* been woken: the protocol is followed on a registry that no longer changes
VoidPhase ==
  [w \in WakerIds |-> IF phase[w] \in {"none", "new"} THEN phase[w] ELSE "void"]

HW_Mutate(f) ==
  /\ fresh' = f
  /\ pend0' = {}
  /\ conc' = {}
  /\ phase' = VoidPhase
  /\ UNCHANGED <<lastWake, regHist, callVars>>

HW_Register(key, fd, events) ==
  HW_Mutate(IF fresh = [NoFresh EXCEPT !.key = key, !.stage = "unreg"]
            THEN [key |-> key, fd |-> fd, events |-> events, stage |-> "reg"]
            ELSE NoFresh)

HW_Unregister(key) ==
  HW_Mutate(IF Position(index, key) # 0
            THEN [NoFresh EXCEPT !.key = key, !.stage = "unreg"]
            ELSE NoFresh)

HW_WakerNew ==
  /\ fresh' = NoFresh
  /\ pend0' = {}
  /\ conc' = {}
  /\ phase' = [VoidPhase EXCEPT ![NUser + nwk + 1] = "new"]
  /\ UNCHANGED <<lastWake, regHist, callVars>>

HW_Wake(w) ==
  /\ lastWake' = [full |-> rOpen[w] /\ buf[w] >= Cap(w), res |-> WriteAll(w)]
  /\ conc' = IF pc = "poll" /\ WriteAll(w) # "BrokenPipe" THEN conc \cup {w} ELSE conc
  /\ phase' = [phase EXCEPT ![w] =
                 IF pc = "idle" /\ WriteAll(w) # "BrokenPipe"
                 THEN CASE @ = "new" -> "w1"
                        [] @ \in {"w1", "w2"} -> "w2"
                        [] OTHER -> "void"
                 ELSE "void"]
  /\ UNCHANGED <<fresh, pend0, regHist, callVars>>

\* a Waker dropped after one or more wakes and a fully iterated wait is "dropped"
HW_Drop(w) ==
  /\ phase' = [phase EXCEPT ![w] = IF @ \in {"ed1", "ed2"} THEN "dropped" ELSE "void"]
  /\ UNCHANGED <<lastWake, fresh, pend0, conc, regHist, callVars>>

HW_WaitBegin ==
  /\ pend0' = {w \in WakerIds : buf[w] > 0}
  /\ conc' = {}
  /\ phase' = [w \in WakerIds |->
                 CASE phase[w] = "w1" -> "ing1"
                   [] phase[w] = "w2" -> "ing2"
                   [] phase[w] = "ed1" -> "re1"
                   [] phase[w] = "ed2" -> "re2"
                   [] OTHER -> phase[w]]
  /\ fresh' = IF fresh.stage = "reg" THEN [fresh EXCEPT !.stage = "regw"] ELSE fresh
  /\ UNCHANGED <<lastWake, regHist, callVars>>

\* the wait has returned Timeout, or its Ready result has been fully iterated
HW_WaitEnd ==
  /\ phase' = [w \in WakerIds |->
                 CASE phase[w] = "ing1" -> "ed1"
                   [] phase[w] = "ing2" -> "ed2"
                   [] OTHER -> phase[w]]
  /\ UNCHANGED <<lastWake, fresh, pend0, conc, regHist, callVars>>

\* a wait that returned Err does not count as a wait of the protocol
HW_PollError ==
  /\ phase' = [w \in WakerIds |->
                 CASE phase[w] = "ing1" -> "w1"
                   [] phase[w] = "ing2" -> "w2"
                   [] phase[w] = "re1" -> "ed1"
                   [] phase[w] = "re2" -> "ed2"
                   [] OTHER -> phase[w]]
  /\ UNCHANGED <<lastWake, fresh, pend0, conc, regHist, callVars>>

HW_Same == UNCHANGED <<wakeHist, regHist, callVars>>

\* ---- history of registrations (registry specification) ------------------------------
HR_Register(key, fd) ==
  /\ everDup' = (everDup \/ \E i \in 1..Len(index) : index[i] = key)
  /\ unreg' = unreg \ {key}
  /\ order' = Append(order, <<key, fd>>)
  /\ UNCHANGED <<wakeHist, callVars>>

OrderPos(key) ==
  IF \E i \in 1..Len(order) : order[i][1] = key
  THEN CHOOSE i \in 1..Len(order) :
         order[i][1] = key /\ \A j \in 1..(i - 1) : order[j][1] # key
  ELSE 0

HR_Unregister(key) ==
  /\ unreg' = IF Position(index, key) # 0 THEN unreg \cup {key} ELSE unreg
  /\ order' = LET ix == OrderPos(key) IN
              IF ix = 0 THEN order
              ELSE SubSeq(order, 1, ix - 1) \o SubSeq(order, ix + 1, Len(order))
  /\ UNCHANGED <<everDup, wakeHist, callVars>>

HR_Same == UNCHANGED <<wakeHist, regHist, callVars>>

\* ---- history of keyed calls (duplicate-key specification) ----------------------------
NoOp == [op |-> "none", key |-> "none", events |-> {}, ret |-> FALSE, ix |-> 0,
         oldIndex |-> <<>>, oldList |-> <<>>]

\* the entry of `order` that unregister(key) takes out: the pair at the position found
OrderOf(key, fd) ==
  IF \E i \in 1..Len(order) : order[i] = <<key, fd>>
  THEN CHOOSE i \in 1..Len(order) : order[i] = <<key, fd>>
  ELSE 0

HD_Register(key, fd) ==
  /\ everDup' = (everDup \/ \E i \in 1..Len(index) : index[i] = key)
  /\ order' = Append(order, <<key, fd>>)
  /\ lastOp' = NoOp
  /\ UNCHANGED <<unreg, wakeHist, dur, timeout, hup0>>

HD_Unregister(key) ==
  /\ order' = LET ix == Position(index, key)
                  o == IF ix = 0 THEN 0 ELSE OrderOf(key, list[ix].fd)
              IN IF o = 0 THEN order
                 ELSE SubSeq(order, 1, o - 1) \o SubSeq(order, o + 1, Len(order))
  /\ lastOp' = NoOp
  /\ UNCHANGED <<everDup, unreg, wakeHist, dur, timeout, hup0>>

HD_Set(key, events) ==
  /\ lastOp' = [op |-> "set", key |-> key, events |-> events, ret |-> SetFound(key),
                ix |-> Position(index, key), oldIndex |-> index, oldList |-> list]
  /\ UNCHANGED <<wakeHist, regHist, dur, timeout, hup0>>

HD_GetMut(key) ==
  /\ lastOp' = [op |-> "get_mut", key |-> key, events |-> {},
                ret |-> GetMutFound(key) # 0, ix |-> GetMutFound(key),
                oldIndex |-> index, oldList |-> list]
  /\ UNCHANGED <<wakeHist, regHist, dur, timeout, hup0>>

HD_Other ==
  /\ lastOp' = NoOp
  /\ UNCHANGED <<wakeHist, regHist, dur, timeout, hup0>>

\* ---- history of the waker's life (lifecycle specification) ---------------------------------
HL_Mutate ==
  /\ phase' = VoidPhase
  /\ UNCHANGED <<lastWake, fresh, pend0, conc, regHist, callVars>>

HL_WakerNew ==
  /\ phase' = [VoidPhase EXCEPT ![NUser + nwk + 1] = "new"]
  /\ UNCHANGED <<lastWake, fresh, pend0, conc, regHist, callVars>>

HL_Wake(w) ==
  /\ phase' = [phase EXCEPT ![w] =
                 IF pc = "idle" /\ WriteAll(w) # "BrokenPipe"
                 THEN CASE @ = "new" -> "w1"
                        [] @ \in {"w1", "w2"} -> "w2"
                        [] OTHER -> "void"
                 ELSE "void"]
  /\ UNCHANGED <<lastWake, fresh, pend0, conc, regHist, callVars>>

\* the pairs made so far whose remote (writer) half is closed
RemoteClosed == {p \in Pairs : (p \in UserPairs \/ p <= NUser + nwk) /\ ~wOpen[p]}

HL_WaitBegin ==
  /\ phase' = [w \in WakerIds |->
                 CASE phase[w] = "w1" -> "ing1"
                   [] phase[w] = "w2" -> "ing2"
                   [] phase[w] = "ed1" -> "re1"
                   [] phase[w] = "ed2" -> "re2"
                   [] OTHER -> phase[w]]
  /\ hup0' = RemoteClosed
  /\ UNCHANGED <<lastWake, fresh, pend0, conc, regHist, dur, timeout, lastOp>>

\* ---- specifications -------------------------------------------------------------------
Init ==
  /\ index = <<>>
  /\ list = <<>>
  /\ wakers = <<>>
  /\ pc = "idle"
  /\ cursor = 0
  /\ waitRes = "none"
  /\ yielded = <<>>
  /\ panic = "none"
  /\ fdt = [n \in Fds |-> IF n \in UserPairs THEN [pair |-> n, side |-> "r"] ELSE NoEnd]
  /\ buf = [p \in Pairs |-> 0]
  /\ wOpen = [p \in Pairs |-> p \in UserPairs]
  /\ rOpen = [p \in Pairs |-> p \in UserPairs]
  /\ nwk = 0
  /\ lastWake = NoWake
  /\ fresh = NoFresh
  /\ pend0 = {}
  /\ conc = {}
  /\ phase = [w \in WakerIds |-> "none"]
  /\ everDup = FALSE
  /\ unreg = {}
  /\ order = <<>>
  /\ dur = Millis(0, 0, 0)
  /\ timeout = 0
  /\ lastOp = NoOp
  /\ hup0 = {}

\* the waker specification: wakers, one caller endpoint, two keys, pairwise
\* distinct keys
UsersW == {1}
InterestsW == {READ, WRITE}

Next ==
  \/ \E k \in KeysW, u \in UsersW, e \in InterestsW :
       /\ Len(list) < MaxLenW
       /\ Position(index, k) = 0
       /\ Register(k, u, e) /\ HW_Register(k, u, e)
  \/ \E k \in KeysW : Unregister(k) /\ HW_Unregister(k)
  \/ \E k \in KeysW :
       /\ Len(list) < MaxLenW
       /\ Position(index, k) = 0
       /\ WakerNew(k) /\ HW_WakerNew
  \/ \E w \in WakerIds : Wake(w) /\ HW_Wake(w)
  \/ WaitBegin /\ HW_WaitBegin
  \/ PollTimeout /\ HW_WaitEnd
  \/ PollReady /\ HW_Same
  \/ PollError /\ HW_PollError
  \/ IterYield /\ HW_Same
  \/ IterPanic /\ HW_Same
  \/ IterEnd /\ HW_WaitEnd
  \/ \E u \in UsersW : RemoteWrite(u) /\ HW_Same
  \/ \E u \in UsersW : LocalRead(u) /\ HW_Same

Spec == Init /\ [][Next]_vars

\* the registry specification: no waker, pairwise distinct keys
InterestsR == {READ, WRITE}

NextReg ==
  \/ \E k \in Keys, u \in UserPairs, e \in InterestsR :
       /\ Len(list) < MaxLen
       /\ Position(index, k) = 0
       /\ Register(k, u, e) /\ HR_Register(k, u)
  \/ \E k \in Keys : Unregister(k) /\ HR_Unregister(k)
  \/ WaitBegin /\ HR_Same
  \/ PollTimeout /\ HR_Same
  \/ PollReady /\ HR_Same
  \/ PollError /\ HR_Same
  \/ IterYield /\ HR_Same
  \/ IterEnd /\ HR_Same
  \/ \E u \in UserPairs : RemoteWrite(u) /\ HR_Same
  \/ \E u \in UserPairs : LocalRead(u) /\ HR_Same

SpecReg == Init /\ [][NextReg]_vars

\* the timeout specification: wait is called on an empty registry with every Duration
\* of Durations; a negative timeout makes poll block without a time limit
NextTime ==
  \/ \E d \in Durations :
       WaitBegin /\ WaitTimeout(d) /\ UNCHANGED <<wakeHist, regHist, lastOp, hup0>>
  \/ timeout >= 0 /\ PollTimeout /\ HR_Same
  \/ PollError /\ HR_Same

SpecTime == Init /\ [][NextTime]_vars

\* the duplicate-key specification: no waker, keys may repeat (an entry is told from
\* another of the same key by its handle), set and get_mut are called; the remote
\* half of an endpoint writes to it once
UsersD == {1, 2}

NextDup ==
  \/ \E k \in KeysW, u \in UsersD, e \in InterestsR :
       /\ Len(list) < MaxLen
       /\ \A i \in 1..Len(order) : order[i] # <<k, u>>
       /\ Register(k, u, e) /\ HD_Register(k, u)
  \/ \E k \in KeysW : Unregister(k) /\ HD_Unregister(k)
  \/ \E k \in KeysW, e \in InterestsR : Set(k, e) /\ HD_Set(k, e)
  \/ \E k \in KeysW : GetMut(k) /\ HD_GetMut(k)
  \/ WaitBegin /\ HD_Other
  \/ PollTimeout /\ HD_Other
  \/ PollReady /\ HD_Other
  \/ IterYield /\ HD_Other
  \/ IterEnd /\ HD_Other
  \/ \E u \in UsersD : buf[u] = 0 /\ RemoteWrite(u) /\ HD_Other

SpecDup == Init /\ [][NextDup]_vars

\* the lifecycle specification: Wakers are dropped and the caller's endpoint is closed
\* by its remote half; pairwise distinct keys, one caller endpoint written to once
InterestsL == Interests \cup {READ \cup WRITE}

NextLife ==
  \/ \E k \in KeysW, u \in UsersW, e \in InterestsL :
       /\ Len(list) < MaxLenW
       /\ Position(index, k) = 0
       /\ Register(k, u, e) /\ HL_Mutate
  \/ \E k \in KeysW : Unregister(k) /\ HL_Mutate
  \/ \E k \in KeysW :
       /\ Len(list) < MaxLenW
       /\ Position(index, k) = 0
       /\ WakerNew(k) /\ HL_WakerNew
  \/ \E w \in WakerIds : Wake(w) /\ HL_Wake(w)
  \/ \E w \in WakerIds : DropWaker(w) /\ HW_Drop(w)
  \/ WaitBegin /\ HL_WaitBegin
  \/ PollTimeout /\ HW_WaitEnd
  \/ PollReady /\ HW_Same
  \/ IterYield /\ HW_Same
  \/ IterPanic /\ HW_Same
  \/ IterEnd /\ HW_WaitEnd
  \/ \E u \in UsersW : buf[u] = 0 /\ RemoteWrite(u) /\ HW_Same
  \/ \E u \in UsersW : RemoteClose(u) /\ HW_Same

SpecLife == Init /\ [][NextLife]_vars

\* the assertion specification: what the iterator does at a position of the side-table,
\* for every readiness such a position can show: Wakers are dropped, and entries of the
\* caller's endpoint come to stand at positions the side-table holds
InterestsA == {READ \cup WRITE}

NextAssert ==
  \/ \E k \in KeysW, u \in UsersW, e \in InterestsA :
       /\ Len(list) < MaxLenW
       /\ Position(index, k) = 0
       /\ Register(k, u, e) /\ HR_Same
  \/ \E k \in KeysW : Unregister(k) /\ HR_Same
  \/ \E k \in KeysW :
       /\ Len(list) < MaxLenW
       /\ Position(index, k) = 0
       /\ WakerNew(k) /\ HR_Same
  \/ \E w \in WakerIds : Wake(w) /\ HR_Same
  \/ \E w \in WakerIds : DropWaker(w) /\ HR_Same
  \/ WaitBegin /\ HR_Same
  \/ PollTimeout /\ HR_Same
  \/ PollReady /\ HR_Same
  \/ IterYield /\ HR_Same
  \/ IterPanic /\ HR_Same
  \/ IterEnd /\ HR_Same
  \/ \E u \in UsersW : buf[u] = 0 /\ RemoteWrite(u) /\ HR_Same

SpecAssert == Init /\ [][NextAssert]_vars

\* ---- vocabulary of the claims ---------------------------------------------------------------
Registered(w) == \E i \in 1..Len(list) : list[i].wk = w
Distinct(s) == \A i, j \in 1..Len(s) : i # j => s[i] # s[j]
WakerKey(w) == index[CHOOSE i \in 1..Len(list) : list[i].wk = w]
\* the last wait returned Timeout, or its Ready result was iterated to the end,
\* or the iteration aborted the program
WaitOver == (pc = "idle" /\ waitRes \in {"Ready", "Timeout"}) \/ pc = "aborted"
YieldedAt(k) == {j \in 1..Len(yielded) : yielded[j].key = k}
SeenReadable(w) ==
  /\ waitRes = "Ready"
  /\ \E j \in YieldedAt(WakerKey(w)) : yielded[j].ev.readable

\* C1: a waker that holds an undrained wake when a wait begins is reported by
\* that wait: the wait returns Ready and yields a readable event at the waker's key.
C1_NoLostWakeup ==
  WaitOver => \A w \in pend0 : Registered(w) => SeenReadable(w)

\* C2: a wake() that lands while the wait is blocked in poll makes that wait
\* return Ready with a readable event at the waker's key.
C2_CrossThreadInterrupt ==
  WaitOver => \A w \in conc : Registered(w) => SeenReadable(w)

\* C3: after exactly one wake() and one fully iterated wait the waker is Armed
\* again (its reader holds no byte) and the next wait yields no event at its key.
C3_WakeSeenOnce ==
  \A w \in WakerIds :
    Registered(w) /\ Distinct(index) =>
      /\ phase[w] \in {"ed1", "re1"} => buf[w] = 0
      /\ phase[w] = "re1" => YieldedAt(WakerKey(w)) = {}

\* C4: every position of the waker side-table is a position of the registry whose
\* entry holds the handle of the reader stored there, and every registered entry
\* made by Waker::new has its position in the side-table.
C4_SideTableConsistent ==
  /\ \A p \in DOMAIN wakers :
       /\ p < Len(list)
       /\ list[p + 1].fd = FdOf(wakers[p], "r")
  /\ \A i \in 1..Len(list) :
       list[i].wk # 0 => (i - 1) \in DOMAIN wakers /\ wakers[i - 1] = list[i].wk

\* C6: after unregister(k); register(k, h, i) the entry found for k has handle h,
\* interest i and readiness 0, no waker reader is associated with its position,
\* and a later wait drains nothing when it yields that entry.
C6_NoResidualState ==
  (fresh.stage \in {"reg", "regw"} /\ Distinct(index)) =>
    LET ix == Position(index, fresh.key) IN
      /\ list[ix].fd = fresh.fd
      /\ list[ix].events = fresh.events
      /\ fresh.stage = "reg" => list[ix].revents = {}
      /\ (ix - 1) \notin DOMAIN wakers
      /\ fresh.stage = "regw" =>
           \A j \in 1..Len(yielded) : yielded[j].pos = ix - 1 => yielded[j].drained = 0

\* C9: two or more wake() calls before any drain are one pending trigger: after one
\* fully iterated wait the waker is Armed and the next wait yields nothing at its key.
C9_WakesCoalesce ==
  \A w \in WakerIds :
    Registered(w) /\ Distinct(index) =>
      /\ phase[w] \in {"ed2", "re2"} => buf[w] = 0
      /\ phase[w] = "re2" => YieldedAt(WakerKey(w)) = {}

\* C10: wake() on a full buffer returns success; it returns an error only for a
\* write failure other than would-block.
C10_WakeToleratesFull ==
  /\ lastWake.full => lastWake.res = "Ok"
  /\ lastWake.res # "WouldBlock"

\* ---- claims on the registry specification -------------------------------------------------------
ReadyUpTo(c) == {i \in 1..Min2(c, Len(list)) : list[i].revents # {}}
Registrations == {order[i] : i \in 1..Len(order)}
\* the registry's keys stand in their order of registration
IndexIsOrder == index = [i \in 1..Len(order) |-> order[i][1]]

\* C5: with pairwise distinct keys, a key that has been unregistered and not
\* registered again is no key of the registry, and no wait yields an event with it.
C5_UnregisteredKeyNeverYielded ==
  /\ \A k \in unreg : Position(index, k) = 0
  /\ pc = "iter" => \A j \in 1..Len(yielded) : yielded[j].key \notin unreg

\* C5 witness: a key is unregistered, every caller endpoint (the removed one's too)
\* is readable, and the wait has yielded an event.
C5_Witness ==
  /\ pc = "iter" /\ unreg # {} /\ Len(yielded) >= 1
  /\ \A u \in UserPairs : buf[u] > 0

\* C7: with pairwise distinct keys, the Ready iterator yields exactly one pair for each
\* entry with nonzero readiness it has passed and none for the others, and each pair
\* carries the key under which the event's handle was registered.
C7_KeyAttribution ==
  pc = "iter" =>
    /\ Len(yielded) = Cardinality(ReadyUpTo(cursor))
    /\ \A j \in 1..Len(yielded) :
         LET y == yielded[j] IN
           /\ (y.pos + 1) \in ReadyUpTo(cursor)
           /\ y.ev = EventFrom(list[y.pos + 1])
           /\ <<y.key, y.ev.fd>> \in Registrations
    /\ \A j, l \in 1..Len(yielded) : j # l => yielded[j].pos # yielded[l].pos

\* C7 witness: after a swap-removal has permuted the registry, a wait has been iterated
\* to its end and has yielded two of three entries.
C7_Witness ==
  /\ pc = "iter" /\ NextReady(cursor) = 0
  /\ Len(list) = 3 /\ ~IndexIsOrder
  /\ Len(yielded) = 2

\* C8 as stated: of two entries yielded by one wait, the one registered earlier is
\* yielded first.
C8_RegistrationOrder ==
  pc = "iter" =>
    \A j, l \in 1..Len(yielded) :
      j < l => OrderPos(yielded[j].key) < OrderPos(yielded[l].key)

\* C8 amended: of two entries yielded by one wait, the one at the lower position of
\* the registry is yielded first; that is the order of registration as long as no
\* swap-removal has moved an entry.
C8_PositionOrder ==
  pc = "iter" =>
    /\ \A j, l \in 1..Len(yielded) : j < l => yielded[j].pos < yielded[l].pos
    /\ IndexIsOrder =>
         \A j, l \in 1..Len(yielded) :
           j < l => OrderPos(yielded[j].key) < OrderPos(yielded[l].key)

\* C8 witness: two entries have been yielded by one wait after a swap-removal.
C8_Witness ==
  /\ pc = "iter" /\ Len(yielded) >= 2 /\ ~IndexIsOrder

\* ---- claims on the timeout specification ---------------------------------------------------
Exceeds(m) == m.hi > 0 \/ m.mid >= Limb \div 2
Shorter(m, n) ==
  \/ m.hi < n.hi
  \/ m.hi = n.hi /\ m.mid < n.mid
  \/ m.hi = n.hi /\ m.mid = n.mid /\ m.lo < n.lo

\* C14: the timeout handed to poll is the largest c_int when the Duration's millisecond
\* count exceeds it, is never negative, and is never smaller than the timeout a shorter
\* Duration gives.
C14_TimeoutSaturates ==
  /\ Exceeds(dur) => timeout = CIntMax
  /\ timeout >= 0
  /\ \A d \in Durations : Shorter(d, dur) => AsCInt(d) <= timeout

\* ---- claims on the duplicate-key specification ----------------------------------------------
Holding(s, key) == {i \in 1..Len(s) : s[i] = key}
Lowest(S) == CHOOSE i \in S : \A j \in S : i <= j
\* the registry's entries stand in their order of registration
RegistryIsOrder ==
  /\ Len(order) = Len(index)
  /\ \A i \in 1..Len(order) : order[i] = <<index[i], list[i].fd>>
\* the handle registered first (last) under the key, among the entries still registered
FirstRegistered(key) ==
  order[Lowest({i \in 1..Len(order) : order[i][1] = key})][2]
LastRegistered(key) ==
  LET S == {i \in 1..Len(order) : order[i][1] = key}
  IN order[CHOOSE i \in S : \A j \in S : j <= i][2]
Looked == lastOp.op \in {"set", "get_mut"} /\ Cardinality(Holding(index, lastOp.key)) >= 2
\* every registration is an entry of the registry and the other way round
AllRemain ==
  /\ Len(index) = Len(order)
  /\ {<<index[i], list[i].fd>> : i \in 1..Len(index)} = Registrations
\* every ready entry the iterator has passed has been yielded with its own key
AllYielded ==
  pc = "iter" =>
    \A i \in ReadyUpTo(cursor) :
      \E j \in 1..Len(yielded) : yielded[j].pos = i - 1 /\ yielded[j].key = index[i]

C16_SetReplaces ==
  lastOp.op = "set" =>
    /\ index = lastOp.oldIndex
    /\ Len(list) = Len(lastOp.oldList)
    /\ IF Holding(index, lastOp.key) # {}
       THEN /\ lastOp.ret
            /\ \E i \in Holding(index, lastOp.key) :
                 /\ list[i] = [lastOp.oldList[i] EXCEPT !.events = lastOp.events]
                 /\ \A j \in 1..Len(list) : j # i => list[j] = lastOp.oldList[j]
       ELSE ~lastOp.ret /\ list = lastOp.oldList

\* C16 witness: set has replaced an interest by one that shares no flag with it.
C16_Witness ==
  /\ lastOp.op = "set" /\ lastOp.ret
  /\ lastOp.oldList[lastOp.ix].events # {}
  /\ lastOp.events # {}
  /\ lastOp.oldList[lastOp.ix].events \cap lastOp.events = {}

\* ---- claims on the waker and lifecycle specifications ----------------------------------------
AllAlive == \A w \in WakerIds : w <= NUser + nwk => wOpen[w]
NoneClosed == \A u \in UserPairs : wOpen[u]
\* the socket end the entry at index i polls
EndOf(i) == fdt[list[i].fd]
AtWaker(j) == yielded[j].drained # 0

\* C11: once a Waker has been woken, a wait has been fully iterated and the Waker has
\* then been dropped with its key still registered, no later wait aborts the program.
C11_DropAfterUseIsSafe ==
  \A w \in WakerIds : (phase[w] = "dropped" /\ Registered(w)) => panic = "none"

\* C12: every registered entry whose remote half was closed when a wait began is
\* yielded by that wait at its key with hangup = true, whatever its interest, and
\* errored is set exactly when the entry's readiness holds an error or invalid flag.
C12_HangupReported ==
  WaitOver =>
    /\ \A i \in 1..Len(list) :
         (EndOf(i).side = "r" /\ EndOf(i).pair \in hup0) =>
           \E j \in 1..Len(yielded) :
             yielded[j].pos = i - 1 /\ yielded[j].key = index[i] /\ yielded[j].ev.hangup
    /\ \A j \in 1..Len(yielded) :
         yielded[j].ev.errored =
           (list[yielded[j].pos + 1].revents \cap (POLLERR \cup POLLNVAL) # {})

\* C13: a wait returns Timeout exactly when poll found no entry ready, and that result
\* yields nothing; a Ready result, once iterated, has yielded at least one pair.
C13_TimeoutOutcome ==
  /\ waitRes = "Timeout" =>
       /\ \A i \in 1..Len(list) : list[i].revents = {}
       /\ yielded = <<>>
  /\ waitRes = "Ready" => \E i \in 1..Len(list) : list[i].revents # {}
  /\ (waitRes = "Ready" /\ WaitOver) => Len(yielded) >= 1

\* C17: a yield of a waker's entry drains one byte from that waker's own reader, and a
\* yield of any other entry drains nothing.
C17_DrainOnlyOwn ==
  \A j \in 1..Len(yielded) : yielded[j].drained = yielded[j].wk

\* C19: a drain that fails is returned to the caller as an I/O error: it never aborts
\* the program.
C19_DrainFailureReturned == panic # "snooze"

\* C20: with every Waker alive and no endpoint closed, no wait and no iteration of its
\* result aborts the program.
C20_WaitNeverAborts == (AllAlive /\ NoneClosed) => panic = "none"

====
